---------------------------- MODULE Spec2Model ----------------------------
(***************************************************************************)
(* CircuitPyKernel (circuitpython_kernel/kernel.py): the notebook kernel   *)
(* that submits code cells to a CircuitPython board over a serial link.    *)
(*                                                                         *)
(* Text is a sequence of Unicode code points, bytes are sequences of       *)
(* integers 0..255.  The Board class (circuitpython_kernel/board.py) and   *)
(* the device behind it are not part of kernel.py; they are modelled from  *)
(* the protocol description (Board* and Device* definitions).              *)
(***************************************************************************)
EXTENDS Integers, Sequences, FiniteSets, TLC

(***************************************************************************)
(* Bytes and characters of the wire protocol.                              *)
(***************************************************************************)
EOT == 4            \* b'\x04', Control-D
CR == 13
LF == 10
SPACE == 32
PROMPT == 62        \* '>'
DOT == 46
REPLACEMENT == 65533   \* U+FFFD, what decode(..., 'replace') substitutes

OK == <<79, 75>>                       \* b'OK'
CRLF == <<CR, LF>>                     \* b'\r\n'
TRIGGER == <<CR, EOT>>                 \* b'\r\x04'
TERMINATOR == <<EOT, PROMPT>>          \* b'\x04>'
SHUTDOWN_BYTES == <<CR, 2>>            \* b'\r\x02', Control-B
SOFTRESET == <<37, 115, 111, 102, 116, 114, 101, 115, 101, 116>>  \* "%softreset"
UPLOAD_DELAY == <<37, 117, 112, 108, 111, 97, 100, 95, 100, 101, 108, 97, 121>>  \* "%upload_delay"
NAN == <<110, 97, 110>>                \* "nan"
INF == <<105, 110, 102>>               \* "inf"
INFINITY == <<105, 110, 102, 105, 110, 105, 116, 121>>  \* "infinity"
WRAP_OPEN == <<112, 114, 105, 110, 116, 40>>   \* "print("
DIR_OPEN == <<100, 105, 114, 40>>               \* "dir("
CLOSE_PAREN == <<41>>                           \* ")"
NO_CONNECTION == <<78, 111, 32, 99, 111, 110, 110, 101, 99, 116, 105, 111, 110, 32, 116, 111, 32, 67, 105, 114, 117, 105, 116, 80, 121, 116, 104, 111, 110, 32, 86, 77, 58, 32>>  \* "No connection to CiruitPython VM: "
LOST_CONNECTION == <<76, 111, 115, 116, 32, 99, 111, 110, 110, 101, 99, 116, 105, 111, 110, 32, 116, 111, 32, 67, 105, 114, 117, 105, 116, 80, 121, 116, 104, 111, 110, 32, 86, 77, 58, 32>>  \* "Lost connection to CiruitPython VM: "
KEYBOARD_INTERRUPT == <<75, 101, 121, 98, 111, 97, 114, 100, 32, 73, 110, 116, 101, 114, 114, 117, 112, 116>>  \* "Keyboard Interrupt"

(***************************************************************************)
(* Python string and bytes primitives used by kernel.py.                   *)
(***************************************************************************)
Drop(s, n) == SubSeq(s, n + 1, Len(s))
Take(s, n) == SubSeq(s, 1, n)

\* str.startswith / bytes.startswith
StartsWith(s, p) == Len(s) >= Len(p) /\ Take(s, Len(p)) = p

\* bytearray.endswith
EndsWith(s, p) == Len(s) >= Len(p) /\ Drop(s, Len(s) - Len(p)) = p

\* x in s, for a single byte or character x
Contains(s, x) == \E i \in 1..Len(s) : s[i] = x

\* index of the first occurrence of x in s (s contains x)
FirstIndex(s, x) == CHOOSE i \in 1..Len(s) : s[i] = x /\ \A j \in 1..(i - 1) : s[j] # x

\* s.split(sep, 1): at most one split, at the first occurrence of sep
SplitFirst(s, sep) ==
  IF Contains(s, sep)
    THEN <<Take(s, FirstIndex(s, sep) - 1), Drop(s, FirstIndex(s, sep))>>
    ELSE <<s>>

\* s.split(sep) / s.rsplit(sep) without maxsplit: split at every occurrence of sep
RECURSIVE SplitAll(_, _)
SplitAll(s, sep) ==
  IF Contains(s, sep)
    THEN <<Take(s, FirstIndex(s, sep) - 1)>> \o SplitAll(Drop(s, FirstIndex(s, sep)), sep)
    ELSE <<s>>

\* characters str.splitlines() breaks a line at: \n \r \v \f FS GS RS NEL
LineBreaks == {10, 13, 11, 12, 28, 29, 30, 133}

\* characters str.strip() removes (the code points below 256)
Whitespace == {9, 10, 11, 12, 13, 28, 29, 30, 31, 32, 133, 160}

\* position of the first line break of s, or Len(s) + 1
RECURSIVE BreakPos(_, _)
BreakPos(s, i) ==
  IF i > Len(s) THEN i
  ELSE IF s[i] \in LineBreaks THEN i
  ELSE BreakPos(s, i + 1)

\* str.splitlines(False): the lines without their terminators; "\r\n" is
\* one terminator and a trailing terminator opens no further line
RECURSIVE SplitLines(_)
SplitLines(s) ==
  IF s = <<>> THEN <<>>
  ELSE LET p == BreakPos(s, 1)
           w == IF p < Len(s) /\ s[p] = CR /\ s[p + 1] = LF THEN 2 ELSE 1
       IN  IF p > Len(s) THEN <<s>>
           ELSE <<Take(s, p - 1)>> \o SplitLines(Drop(s, p + w - 1))

\* a test that takes only the empty string for blank
IsEmptyText(s) == s = <<>>

\* a test that also takes a cell of magic lines only for blank
IsBlankOrOnlyMagic(s) ==
  \/ \A i \in 1..Len(s) : s[i] \in Whitespace
  \/ \A i \in 1..Len(SplitLines(s)) :
       StartsWith(SplitLines(s)[i], SOFTRESET) \/ StartsWith(SplitLines(s)[i], UPLOAD_DELAY)

\* not code.strip(): nothing is left once the whitespace is stripped
IsBlank(s) == \A i \in 1..Len(s) : s[i] \in Whitespace

\* str.encode('utf-8') for code points below U+0800 (one or two bytes)
RECURSIVE Encode(_)
Encode(s) ==
  IF s = <<>> THEN <<>>
  ELSE (IF s[1] < 128 THEN <<s[1]>>
        ELSE <<192 + (s[1] \div 64), 128 + (s[1] % 64)>>) \o Encode(Tail(s))

\* bytes.decode('utf-8', 'replace') for bytes below 0xE0: ASCII is kept, a
\* lead byte 0xC2..0xDF with its continuation byte is one character, and
\* every byte that is not part of a complete sequence becomes U+FFFD
RECURSIVE Decode(_)
Decode(b) ==
  IF b = <<>> THEN <<>>
  ELSE IF b[1] < 128 THEN <<b[1]>> \o Decode(Tail(b))
  ELSE IF b[1] >= 194 /\ b[1] <= 223 /\ Len(b) >= 2 /\ b[2] >= 128 /\ b[2] <= 191
    THEN <<(b[1] - 192) * 64 + (b[2] - 128)>> \o Decode(Drop(b, 2))
  ELSE <<REPLACEMENT>> \o Decode(Tail(b))

Digits == 48..57

\* value of a string of decimal digits
RECURSIVE DigitsValue(_)
DigitsValue(s) ==
  IF s = <<>> THEN 0 ELSE DigitsValue(Take(s, Len(s) - 1)) * 10 + (s[Len(s)] - 48)

AllDigits(s) == \A i \in 1..Len(s) : s[i] \in Digits

\* lower-case an ASCII string (float() accepts "NaN", "INF")
Lower(s) == [i \in 1..Len(s) |-> IF s[i] >= 65 /\ s[i] <= 90 THEN s[i] + 32 ELSE s[i]]

\* A pacing delay is kept in hundredths of a second: kind "finite" with the
\* value in centi, or kind "nan" / "inf" (sign in centi) as float() yields.
Finite(c) == [kind |-> "finite", centi |-> c]

\* float(s) of an unsigned body: digits [ "." digits ] with at most two
\* fraction digits, "nan", "inf" or "infinity"; anything else raises ValueError
ParseUnsigned(s) ==
  LET parts == SplitFirst(s, DOT)
      ip == parts[1]
      fp == IF Len(parts) = 2 THEN parts[2] ELSE <<>>
  IN  IF Lower(s) = NAN THEN [ok |-> TRUE, val |-> [kind |-> "nan", centi |-> 0]]
      ELSE IF Lower(s) \in {INF, INFINITY} THEN [ok |-> TRUE, val |-> [kind |-> "inf", centi |-> 1]]
      ELSE IF /\ AllDigits(ip) /\ AllDigits(fp)
              /\ Len(ip) + Len(fp) >= 1
              /\ Len(fp) <= 2
        THEN [ok |-> TRUE,
              val |-> Finite(DigitsValue(ip) * 100
                             + (IF Len(fp) = 0 THEN 0
                                ELSE IF Len(fp) = 1 THEN DigitsValue(fp) * 10
                                ELSE DigitsValue(fp)))]
      ELSE [ok |-> FALSE, val |-> Finite(0)]

\* float(s): an optional sign, then the unsigned body
ParseFloat(s) ==
  IF s # <<>> /\ s[1] \in {43, 45}
    THEN LET r == ParseUnsigned(Tail(s))
         IN  IF r.ok /\ s[1] = 45
               THEN [ok |-> TRUE, val |-> [kind |-> r.val.kind, centi |-> 0 - r.val.centi]]
               ELSE r
    ELSE ParseUnsigned(s)

\* time.sleep(d) raises ValueError for a negative or NaN delay and
\* OverflowError for an infinite one
SleepRaises(d) == d.kind # "finite" \/ d.centi < 0

\* "x in s" for a substring x of s
RECURSIVE HasSub(_, _)
HasSub(s, x) ==
  IF Len(s) < Len(x) THEN FALSE
  ELSE IF StartsWith(s, x) THEN TRUE
  ELSE HasSub(Tail(s), x)

\* what follows the first occurrence of x in s (s contains x)
RECURSIVE AfterFirst(_, _)
AfterFirst(s, x) == IF StartsWith(s, x) THEN Drop(s, Len(x)) ELSE AfterFirst(Tail(s), x)

\* the characters the regular expression \w matches, below U+0100
WordChars ==
  (48..57) \cup (65..90) \cup {95} \cup (97..122) \cup {170, 178, 179, 181, 185, 186}
  \cup (188..190) \cup (192..214) \cup (216..246) \cup (248..255)

\* t matches (\w+\.)*(\w+)? as a whole: word characters and dots, every
\* dot directly after a word character
IsDotted(t) ==
  \A i \in 1..Len(t) :
    \/ t[i] \in WordChars
    \/ t[i] = DOT /\ i > 1 /\ t[i - 1] \in WordChars

\* re.search(r'(\w+\.)*(\w+)?$', s).group(): the match that starts
\* leftmost, which is the longest suffix of s that matches
RECURSIVE MatchGroup(_)
MatchGroup(s) == IF IsDotted(s) THEN s ELSE MatchGroup(Tail(s))

\* s.lstrip(" \t") as ast.literal_eval applies it
RECURSIVE LStrip(_)
LStrip(s) == IF s # <<>> /\ s[1] \in {9, 32} THEN LStrip(Tail(s)) ELSE s

\* trailing white space that the parser of ast.literal_eval skips
RECURSIVE RStrip(_)
RStrip(s) ==
  IF s # <<>> /\ s[Len(s)] \in {9, 10, 12, 13, 32} THEN RStrip(Take(s, Len(s) - 1)) ELSE s

\* the elements of a list display, s being what follows "[" or ", ":
\* single-quoted names of word characters separated by commas, up to "]"
RECURSIVE ListItems(_)
ListItems(s) ==
  LET t == LStrip(s)
  IN  IF t = <<>> \/ t[1] # 39 \/ ~Contains(Tail(t), 39)
        THEN [ok |-> FALSE, names |-> <<>>]
      ELSE LET q == FirstIndex(Tail(t), 39)
               name == Take(Tail(t), q - 1)
               more == LStrip(Drop(Tail(t), q))
           IN  IF \E i \in 1..Len(name) : name[i] \notin WordChars
                 THEN [ok |-> FALSE, names |-> <<>>]
               ELSE IF more = <<93>> THEN [ok |-> TRUE, names |-> <<name>>]
               ELSE IF more # <<>> /\ more[1] = 44
                 THEN LET r == ListItems(Tail(more))
                      IN  [ok |-> r.ok, names |-> <<name>> \o r.names]
               ELSE [ok |-> FALSE, names |-> <<>>]

\* ast.literal_eval(text) for the text of a list of names in the form
\* print(dir()) writes it; text that is no literal (the empty string, a bare word, a
\* traceback) raises SyntaxError or ValueError (ok = FALSE)
LiteralEval(text) ==
  LET t == RStrip(LStrip(text))
  IN  IF t = <<91, 93>> THEN [ok |-> TRUE, names |-> <<>>]
      ELSE IF Len(t) >= 2 /\ t[1] = 91 THEN ListItems(Tail(t))
      ELSE [ok |-> FALSE, names |-> <<>>]

\* [n for n in names if n.startswith(prefix)]
RECURSIVE FilterNames(_, _)
FilterNames(names, prefix) ==
  IF names = <<>> THEN <<>>
  ELSE (IF StartsWith(Head(names), prefix) THEN <<Head(names)>> ELSE <<>>)
       \o FilterNames(Tail(names), prefix)


(***************************************************************************)
(* Inputs of the model.                                                    *)
(***************************************************************************)
\* transport failures and interrupt signals that may strike in one session
MaxFaults == 1

\* join lines with "\n"
RECURSIVE JoinLines(_)
JoinLines(ls) ==
  IF ls = <<>> THEN <<>>
  ELSE IF Len(ls) = 1 THEN ls[1]
  ELSE ls[1] \o <<LF>> \o JoinLines(Tail(ls))

LineX == <<120>>                                   \* "x"
LineAccent == <<233>>                              \* "é" (two bytes in UTF-8)
LineDelayHalf == UPLOAD_DELAY \o <<32, 48, 46, 53>>   \* "%upload_delay 0.5"
LineDelayBad == UPLOAD_DELAY \o <<32, 97, 98, 99>>    \* "%upload_delay abc"
LineDelayNeg == UPLOAD_DELAY \o <<32, 45, 49>>        \* "%upload_delay -1"

\* the code cells a front end submits
CodeCells ==
  { <<>>,                                          \* ""
    <<SPACE, LF>>,                                 \* " \n"
    LineX,
    LineAccent,
    JoinLines(<<LineX, <<>>, LineX>>),             \* an empty line between two
    <<120, CR, LF, 120, LF>>,                      \* "x\r\nx\n"
    SOFTRESET,
    JoinLines(<<LineX, SOFTRESET>>),
    JoinLines(<<LineDelayHalf, LineX>>),
    JoinLines(<<LineX, LineDelayHalf, LineX>>),
    JoinLines(<<LineDelayBad, LineX>>),
    JoinLines(<<UPLOAD_DELAY, LineX>>),            \* the argument is missing
    JoinLines(<<LineDelayNeg, LineX>>) }

\* the text a front end asks completions for
CompleteCells ==
  { <<111, 98, 46, 97>>,                           \* "ob.a"
    <<97, 46, 98, 46, 99>> }                       \* "a.b.c"

\* descriptions a BoardError / SerialException carries
FailureTexts == { <<116, 105, 109, 101, 111, 117, 116>> }   \* "timeout"

\* what the device prints for print(dir(...)): "['ab', 'b']\r\n"
DirListing == <<91, 39, 97, 98, 39, 44, 32, 39, 98, 39, 93, 13, 10>>

\* (out, err) the device may produce for a cell
CellReplies ==
  { [out |-> <<>>, err |-> <<>>],
    [out |-> <<97>>, err |-> <<>>],
    [out |-> <<>>, err |-> <<101>>],
    [out |-> <<195, 169>>, err |-> <<101>>],       \* "é" as two bytes
    [out |-> <<97>>, err |-> <<PROMPT, 101>>] }    \* the error text starts with '>'

\* (out, err) the device may produce for print(dir(...))
DirReplies ==
  { [out |-> DirListing, err |-> <<>>],
    [out |-> <<>>, err |-> <<101>>] }

\* the cells run_code is called with directly
DirectCells == { <<>>, LineX }

\* the requests of the sessions with transport failures and interrupts
FaultCells == { <<SPACE, LF>>, LineX, SOFTRESET, JoinLines(<<LineDelayHalf, LineX>>) }

FaultDirectCells == { LineX }

FaultCompleteCells == { <<111, 98, 46, 97>> }       \* "ob.a"

(***************************************************************************)
(* The board session and the device (circuitpython_kernel/board.py).       *)
(***************************************************************************)
\* the bytes of one response: "OK", stdout, 0x04, stderr, 0x04, ">"
DeviceFrame(r) == OK \o r.out \o <<EOT>> \o r.err \o TERMINATOR

\* the replies the device may give to the bytes written to it
DeviceReplies(written) ==
  IF HasSub(written, Encode(WRAP_OPEN \o DIR_OPEN)) THEN DirReplies
  ELSE IF written \in {<<>>, Encode(LineX) \o CRLF} THEN CellReplies
  ELSE { [out |-> <<97>>, err |-> <<>>] }

\* Board.connect(): open the transport unless the session is connected
BoardConnect(isConnected, nOpens) ==
  IF isConnected THEN [connected |-> TRUE, opens |-> nOpens]
  ELSE [connected |-> TRUE, opens |-> nOpens + 1]

\* Board.read_until(delimiter): the pending bytes left after the delimiter
BoardReadUntil(pending, delimiter) == AfterFirst(pending, delimiter)

(***************************************************************************)
(* State.                                                                  *)
(***************************************************************************)
VARIABLES
  pc,            \* where the running request stands ("idle": none running)
  req,           \* the running (or last) request
  ret,           \* how the last request ended
  connected,     \* board session state
  opens,         \* transport-open side effects so far
  upload_delay,  \* self.upload_delay
  todo,          \* lines of the cell not yet handled by run_code's loop
  sent,          \* bytes board.write() was given in the current run_code
  resets,        \* board.softreset() calls in the current run_code
  pauses,        \* delays time.sleep() took after a line, in order
  wire,          \* bytes the device has sent and the host has not read
  reply,         \* the (out, err) the device produced for the last trigger
  result,        \* run_code's local bytearray result
  retval,        \* run_code's local bytearray retval
  streams,       \* stream messages sent to the notebook in this request
  raised,        \* the exception that ended run_code in this request, if any
  faults         \* transport failures and interrupts so far

vars == <<pc, req, ret, connected, opens, upload_delay, todo, sent, resets,
          pauses, wire, reply, result, retval, streams, raised, faults>>

NoReply == [out |-> <<>>, err |-> <<>>]

NoException == [type |-> "none", text |-> <<>>]

Exception(t, e) == [type |-> t, text |-> e]

NoRequest == [op |-> "none", code |-> <<>>, silent |-> FALSE,
              text |-> <<>>, cursor |-> 0, prefix |-> <<>>]

NoReturn == [kind |-> "none", exc |-> "", status |-> "", out |-> <<>>, err |-> <<>>,
             matches |-> <<>>, cursor_start |-> 0, cursor_end |-> 0]

Raised(e) == [NoReturn EXCEPT !.kind = "raise", !.exc = e]

\* the dict do_execute returns
ExecuteReply == [NoReturn EXCEPT !.kind = "return", !.status = "ok"]

Init ==
  /\ pc = "idle"
  /\ req = NoRequest
  /\ ret = NoReturn
  /\ connected = FALSE
  /\ opens = 0
  /\ upload_delay = Finite(6)
  /\ todo = <<>>
  /\ sent = <<>>
  /\ resets = 0
  /\ pauses = <<>>
  /\ wire = <<>>
  /\ reply = NoReply
  /\ result = <<>>
  /\ retval = <<>>
  /\ streams = <<>>
  /\ raised = NoException
  /\ faults = 0

\* send_stdout / send_stderr: the stream messages after sending msg
SendStream(msgs, name, msg, silent) ==
  IF silent \/ msg = <<>> THEN msgs ELSE Append(msgs, [name |-> name, text |-> msg])

\* entry of run_code(code, silent): its locals and this call's logs
EnterRunCode(code) ==
  /\ pc' = "connect"
  /\ todo' = SplitLines(code)
  /\ sent' = <<>>
  /\ resets' = 0
  /\ pauses' = <<>>
  /\ result' = <<>>
  /\ retval' = <<>>
  /\ reply' = NoReply
  /\ UNCHANGED <<connected, opens, upload_delay, wire, faults>>

\* do_execute(code, silent) up to the call of run_code
Execute(code, silent) ==
  /\ pc = "idle"
  /\ req' = [NoRequest EXCEPT !.op = "execute", !.code = code, !.silent = silent]
  /\ streams' = <<>>
  /\ raised' = NoException
  /\ IF IsBlank(code)
       THEN /\ ret' = ExecuteReply
            /\ UNCHANGED <<pc, connected, opens, upload_delay, todo, sent, resets,
                           pauses, wire, reply, result, retval, faults>>
       ELSE /\ ret' = NoReturn
            /\ EnterRunCode(code)

\* a direct call of run_code(code, silent)
RunCode(code, silent) ==
  /\ pc = "idle"
  /\ req' = [NoRequest EXCEPT !.op = "run_code", !.code = code, !.silent = silent]
  /\ streams' = <<>>
  /\ raised' = NoException
  /\ ret' = NoReturn
  /\ EnterRunCode(code)

\* the expression do_complete evaluates for the matched prefix
CompleteExpr(prefix) ==
  IF Contains(prefix, DOT)
    THEN DIR_OPEN \o SplitAll(prefix, DOT)[1] \o CLOSE_PAREN
    ELSE DIR_OPEN \o CLOSE_PAREN

\* do_complete(code, cursor_pos) up to run_code, through _eval(expr)
Complete(text, cursor_pos) ==
  LET prefix == MatchGroup(Take(text, cursor_pos))
      parts == SplitAll(prefix, DOT)
      code == WRAP_OPEN \o CompleteExpr(prefix) \o CLOSE_PAREN
  IN  /\ pc = "idle"
      /\ streams' = <<>>
      /\ raised' = NoException
      /\ IF Contains(prefix, DOT) /\ Len(parts) # 2
           THEN \* obj, prefix = prefix.rsplit('.') cannot unpack
                /\ req' = [NoRequest EXCEPT !.op = "complete", !.text = text,
                                            !.cursor = cursor_pos, !.prefix = prefix]
                /\ ret' = Raised("ValueError")
                /\ UNCHANGED <<pc, connected, opens, upload_delay, todo, sent, resets,
                               pauses, wire, reply, result, retval, faults>>
           ELSE /\ req' = [op |-> "complete", code |-> code, silent |-> TRUE,
                           text |-> text, cursor |-> cursor_pos,
                           prefix |-> parts[Len(parts)]]
                /\ ret' = NoReturn
                /\ EnterRunCode(code)


\* is_magic that knows %softreset only
IsMagicSoftresetOnly(line) == StartsWith(line, SOFTRESET)

\* is_magic(line): the line is a magic command
IsMagic(line) == StartsWith(line, SOFTRESET) \/ StartsWith(line, UPLOAD_DELAY)

\* the pacing delay after is_magic(line) for an %upload_delay line:
\* float(line.split(' ')[1]), the old value when that raises
MagicDelay(line, old) ==
  LET s == SplitAll(line, SPACE)
  IN  IF Len(s) >= 2 /\ ParseFloat(s[2]).ok THEN ParseFloat(s[2]).val ELSE old

\* what the caller of run_code makes of the pair (out, err) it returns
Returned(out, err) ==
  IF req.op = "complete"
    THEN \* _eval: ast.literal_eval(out); do_complete: filter and span
         LET names == LiteralEval(out)
         IN  IF names.ok
               THEN [NoReturn EXCEPT !.kind = "return", !.status = "ok",
                                     !.out = out, !.err = err,
                                     !.matches = FilterNames(names.names, req.prefix),
                                     !.cursor_start = req.cursor - Len(req.prefix),
                                     !.cursor_end = req.cursor]
               ELSE [Raised("SyntaxError") EXCEPT !.out = out, !.err = err]
  ELSE IF req.op = "execute"
    THEN [ExecuteReply EXCEPT !.out = out, !.err = err]
  ELSE [NoReturn EXCEPT !.kind = "return", !.out = out, !.err = err]

\* a run_code that opens the transport anew on every call
ConnectAnew ==
  /\ pc = "connect"
  /\ connected' = TRUE
  /\ opens' = opens + 1
  /\ pc' = "lines"
  /\ UNCHANGED <<req, ret, upload_delay, todo, sent, resets, pauses, wire, reply,
                 result, retval, streams, raised, faults>>

\* self.board.connect()
Connect ==
  /\ pc = "connect"
  /\ connected' = BoardConnect(connected, opens).connected
  /\ opens' = BoardConnect(connected, opens).opens
  /\ pc' = "lines"
  /\ UNCHANGED <<req, ret, upload_delay, todo, sent, resets, pauses, wire, reply,
                 result, retval, streams, raised, faults>>

\* is_magic that recognises an %upload_delay line and leaves the delay alone
HandleMagicKeepingDelay ==
  /\ pc = "lines"
  /\ todo # <<>>
  /\ IsMagic(Head(todo))
  /\ IF StartsWith(Head(todo), SOFTRESET)
       THEN resets' = resets + 1
       ELSE UNCHANGED resets
  /\ todo' = Tail(todo)
  /\ UNCHANGED <<pc, req, ret, connected, opens, upload_delay, sent, pauses, wire, reply,
                 result, retval, streams, raised, faults>>

\* one pass of the line loop over a magic line: handled, not written
HandleMagic ==
  /\ pc = "lines"
  /\ todo # <<>>
  /\ IsMagic(Head(todo))
  /\ IF StartsWith(Head(todo), SOFTRESET)
       THEN resets' = resets + 1 /\ UNCHANGED upload_delay
       ELSE upload_delay' = MagicDelay(Head(todo), upload_delay) /\ UNCHANGED resets
  /\ todo' = Tail(todo)
  /\ UNCHANGED <<pc, req, ret, connected, opens, sent, pauses, wire, reply,
                 result, retval, streams, raised, faults>>

\* a line written with a bare line feed
LineBytesBareLF(line) == Encode(line) \o <<LF>>

\* the two writes for a line: line.encode('utf-8'), then b'\r\n'
LineBytes(line) == Encode(line) \o CRLF

\* the exception time.sleep(d) raises for a delay it rejects
SleepError(d) == IF d.kind = "inf" /\ d.centi > 0 THEN "OverflowError" ELSE "ValueError"

\* one pass of the line loop over any other line: write it, write CR-LF,
\* sleep for the pacing delay (time.sleep raises on a delay it rejects)
SendLine ==
  /\ pc = "lines"
  /\ todo # <<>>
  /\ ~IsMagic(Head(todo))
  /\ sent' = sent \o LineBytes(Head(todo))
  /\ todo' = Tail(todo)
  /\ IF SleepRaises(upload_delay)
       THEN /\ pc' = "idle"
            /\ ret' = Raised(SleepError(upload_delay))
            /\ raised' = Exception(SleepError(upload_delay), <<>>)
            /\ UNCHANGED pauses
       ELSE /\ pauses' = Append(pauses, upload_delay)
            /\ UNCHANGED <<pc, ret, raised>>
  /\ UNCHANGED <<req, connected, opens, upload_delay, resets, wire, reply,
                 result, retval, streams, faults>>

\* a trigger written as the bare byte 0x04
TriggerBare ==
  /\ pc = "lines"
  /\ todo = <<>>
  /\ sent' = sent \o <<EOT>>
  /\ \E r \in DeviceReplies(sent) :
       /\ reply' = r
       /\ wire' = wire \o DeviceFrame(r)
  /\ pc' = "ack"
  /\ UNCHANGED <<req, ret, connected, opens, upload_delay, todo, resets, pauses,
                 result, retval, streams, raised, faults>>

\* self.board.write(b'\r\x04'); the device evaluates and answers
Trigger ==
  /\ pc = "lines"
  /\ todo = <<>>
  /\ sent' = sent \o TRIGGER
  /\ \E r \in DeviceReplies(sent) :
       /\ reply' = r
       /\ wire' = wire \o DeviceFrame(r)
  /\ pc' = "ack"
  /\ UNCHANGED <<req, ret, connected, opens, upload_delay, todo, resets, pauses,
                 result, retval, streams, raised, faults>>

\* self.board.read_until(b'OK')
ReadAck ==
  /\ pc = "ack"
  /\ HasSub(wire, OK)
  /\ wire' = BoardReadUntil(wire, OK)
  /\ pc' = "poll"
  /\ UNCHANGED <<req, ret, connected, opens, upload_delay, todo, sent, resets,
                 pauses, reply, result, retval, streams, raised, faults>>

\* lines 100-115 for a chunk res that ends with b'\x04>': strip the
\* terminator, split, stream, split retval again and return
Finish(res) ==
  LET body == Take(res, Len(res) - 2)
      parts == SplitFirst(body, EOT)
      whole == SplitFirst(retval \o body, EOT)
  IN  /\ result' = body
      /\ retval' = retval \o body
      /\ pc' = "idle"
      /\ IF Len(parts) # 2
           THEN \* out, err = result.split(b'\x04', 1) cannot unpack
                /\ ret' = Raised("ValueError")
                /\ raised' = Exception("ValueError", <<>>)
                /\ UNCHANGED streams
           ELSE /\ raised' = raised
                /\ streams' = SendStream(SendStream(streams, "stdout", Decode(parts[1]),
                                                    req.silent),
                                         "stderr", Decode(parts[2]), req.silent)
                /\ ret' = Returned(Decode(whole[1]), Decode(whole[2]))

\* a drain loop that keeps a chunk of plain output only when it streams it
PollKeepingStreamed(n) ==
  /\ pc = "poll"
  /\ wire' = Drop(wire, n)
  /\ LET res == Take(wire, n)
     IN  IF Contains(res, EOT)
           THEN IF EndsWith(res, TERMINATOR)
                  THEN Finish(res)
                  ELSE /\ result' = res
                       /\ pc' = "rest"
                       /\ UNCHANGED <<ret, retval, streams, raised>>
           ELSE /\ result' = res
                /\ retval' = IF req.silent THEN retval ELSE retval \o res
                /\ streams' = SendStream(streams, "stdout", Decode(res), req.silent)
                /\ UNCHANGED <<pc, ret, raised>>
  /\ UNCHANGED <<req, connected, opens, upload_delay, todo, sent, resets, pauses,
                 reply, faults>>

\* one pass of the outer drain loop: read_all() returns the next n bytes
Poll(n) ==
  /\ pc = "poll"
  /\ wire' = Drop(wire, n)
  /\ LET res == Take(wire, n)
     IN  IF Contains(res, EOT)
           THEN IF EndsWith(res, TERMINATOR)
                  THEN Finish(res)
                  ELSE /\ result' = res
                       /\ pc' = "rest"
                       /\ UNCHANGED <<ret, retval, streams, raised>>
           ELSE /\ result' = res
                /\ retval' = retval \o res
                /\ streams' = SendStream(streams, "stdout", Decode(res), req.silent)
                /\ UNCHANGED <<pc, ret, raised>>
  /\ UNCHANGED <<req, connected, opens, upload_delay, todo, sent, resets, pauses,
                 reply, faults>>

\* one pass of the inner loop: result.extend(read_all()), then the test
\* for the terminator
Rest(n) ==
  /\ pc = "rest"
  /\ wire' = Drop(wire, n)
  /\ LET res == result \o Take(wire, n)
     IN  IF EndsWith(res, TERMINATOR)
           THEN Finish(res)
           ELSE /\ result' = res
                /\ UNCHANGED <<pc, ret, retval, streams, raised>>
  /\ UNCHANGED <<req, connected, opens, upload_delay, todo, sent, resets, pauses,
                 reply, faults>>

\* the board operation the request is about to make touches the transport
AtTransport ==
  IF pc = "connect" THEN ~connected
  ELSE IF pc = "lines" THEN (IF todo = <<>> THEN TRUE ELSE ~StartsWith(Head(todo), UPLOAD_DELAY))
  ELSE pc \in {"ack", "poll", "rest"}

\* the message without the failure description
FailureMessageBare(e) == NO_CONNECTION

\* f"No connection to CiruitPython VM: {e}"
FailureMessage(e) == NO_CONNECTION \o e

\* a board operation raises BoardError / SerialException with text e:
\* do_execute reports it on stderr, _eval goes on to parse an empty out
TransportFails(e) ==
  /\ AtTransport
  /\ faults < MaxFaults
  /\ faults' = faults + 1
  /\ pc' = "idle"
  /\ \E c \in {connected, FALSE} : connected' = c
  /\ raised' = Exception("BoardError", e)
  /\ IF req.op = "execute"
       THEN /\ streams' = SendStream(streams, "stderr", FailureMessage(e), FALSE)
            /\ ret' = ExecuteReply
       ELSE /\ ret' = IF req.op = "complete"
                        THEN \* _eval: out = "", err = f"Lost connection ...: {e}"
                             Returned(<<>>, LOST_CONNECTION \o e)
                        ELSE Raised("BoardError")
            /\ UNCHANGED streams
  /\ UNCHANGED <<req, opens, upload_delay, todo, sent, resets, pauses, wire, reply,
                 result, retval>>

\* an interrupt handler that also closes the transport
InterruptClosing ==
  /\ pc \notin {"idle", "shutdown"}
  /\ faults < MaxFaults
  /\ faults' = faults + 1
  /\ pc' = "idle"
  /\ raised' = Exception("KeyboardInterrupt", <<>>)
  /\ connected' = FALSE
  /\ IF req.op = "execute"
       THEN /\ streams' = SendStream(streams, "stderr", KEYBOARD_INTERRUPT, FALSE)
            /\ ret' = ExecuteReply
       ELSE /\ ret' = Raised("KeyboardInterrupt")
            /\ UNCHANGED streams
  /\ UNCHANGED <<req, opens, upload_delay, todo, sent, resets, pauses, wire,
                 reply, result, retval>>

\* KeyboardInterrupt while run_code runs: do_execute reports it on stderr,
\* the other callers let it through
Interrupt ==
  /\ pc \notin {"idle", "shutdown"}
  /\ faults < MaxFaults
  /\ faults' = faults + 1
  /\ pc' = "idle"
  /\ raised' = Exception("KeyboardInterrupt", <<>>)
  /\ IF req.op = "execute"
       THEN /\ streams' = SendStream(streams, "stderr", KEYBOARD_INTERRUPT, FALSE)
            /\ ret' = ExecuteReply
       ELSE /\ ret' = Raised("KeyboardInterrupt")
            /\ UNCHANGED streams
  /\ UNCHANGED <<req, connected, opens, upload_delay, todo, sent, resets, pauses, wire,
                 reply, result, retval>>

\* Board.write(bytes) outside a transport failure: the bytes reach the
\* transport only when the session has one
BoardWriteOk(isConnected) == isConnected

\* do_shutdown(restart): self.board.write(b'\r\x02'), then
\* self.board.close(); an exception of the write is not caught, so close()
\* is not reached.  The kernel takes no request after it.
Shutdown ==
  /\ pc = "idle"
  /\ pc' = "shutdown"
  /\ req' = [NoRequest EXCEPT !.op = "shutdown"]
  /\ streams' = <<>>
  /\ resets' = 0
  /\ pauses' = <<>>
  /\ \E lost \in (IF faults < MaxFaults THEN BOOLEAN ELSE {FALSE}) :
       IF BoardWriteOk(connected) /\ ~lost
         THEN /\ sent' = SHUTDOWN_BYTES
              /\ connected' = FALSE
              /\ ret' = [NoReturn EXCEPT !.kind = "return"]
              /\ raised' = NoException
              /\ UNCHANGED faults
         ELSE /\ sent' = <<>>
              /\ ret' = Raised("BoardError")
              /\ raised' = Exception("BoardError", <<>>)
              /\ faults' = IF lost THEN faults + 1 ELSE faults
              /\ UNCHANGED connected
  /\ UNCHANGED <<opens, upload_delay, todo, wire, reply, result, retval>>

\* execute requests and direct run_code calls, the cells drawn from the given sets
CellRequests(cells, direct) ==
  \/ \E code \in cells, silent \in BOOLEAN : Execute(code, silent)
  \/ \E code \in direct, silent \in BOOLEAN : RunCode(code, silent)

\* complete requests
CompleteRequests(texts) ==
  \E text \in texts : \E cursor_pos \in 0..Len(text) : Complete(text, cursor_pos)

\* the steps of a running run_code whose cell has no magic line
PlainSteps ==
  \/ Connect
  \/ SendLine
  \/ Trigger
  \/ ReadAck
  \/ \E n \in 0..Len(wire) : Poll(n)
  \/ \E n \in 0..Len(wire) : Rest(n)

\* the steps of a running run_code
Steps ==
  \/ HandleMagic
  \/ PlainSteps

\* what may go wrong from outside while run_code runs
Faults ==
  \/ \E e \in FailureTexts : TransportFails(e)
  \/ Interrupt

\* sessions on a transport that works, never interrupted
Next ==
  \/ CellRequests(CodeCells, DirectCells)
  \/ CompleteRequests(CompleteCells)
  \/ Steps

Spec == Init /\ [][Next]_vars

\* sessions of direct run_code calls on a transport that works
NextDirect ==
  \/ \E code \in DirectCells, silent \in BOOLEAN : RunCode(code, silent)
  \/ PlainSteps

\* the same sessions when a call that has been made keeps running: the
\* loops of run_code are sequential code, so every pass that reads bytes
\* the device has delivered is eventually made
SpecFair == Init /\ [][NextDirect]_vars /\ WF_vars(PlainSteps)

\* sessions of cells in which the transport may fail and interrupts arrive
NextFaults ==
  \/ CellRequests(FaultCells, FaultDirectCells)
  \/ Steps
  \/ Faults

SpecFaults == Init /\ [][NextFaults]_vars

\* sessions of completions (their code has no magic line) in which the
\* transport may fail and interrupts arrive
NextCompleteFaults ==
  \/ CompleteRequests(FaultCompleteCells)
  \/ PlainSteps
  \/ Faults

SpecCompleteFaults == Init /\ [][NextCompleteFaults]_vars

\* sessions of cells with failures and interrupts that a shutdown may end
NextShutdown ==
  \/ NextFaults
  \/ Shutdown

SpecShutdown == Init /\ [][NextShutdown]_vars

(***************************************************************************)
(* Properties.                                                             *)
(***************************************************************************)
\* run_code has written the trigger and is reading the response
Draining == pc \in {"ack", "poll", "rest"}

\* C1: for every response OK + out + 0x04 + err + 0x04 + '>' and every
\* split of its bytes over the polls, run_code returns the pair (out, err).
C1_ReturnsPair ==
  (pc = "idle" /\ req.op = "run_code" /\ EndsWith(sent, <<13, 4>>))
    => /\ ret.kind = "return"
       /\ ret.out = Decode(reply.out)
       /\ ret.err = Decode(reply.err)


\* the lines of the running request the line loop has handled so far
Handled == Take(SplitLines(req.code), Len(SplitLines(req.code)) - Len(todo))

\* line is a magic command, as the spec words it
MagicLine(line) ==
  \/ StartsWith(line, <<37, 115, 111, 102, 116, 114, 101, 115, 101, 116>>)
  \/ StartsWith(line, <<37, 117, 112, 108, 111, 97, 100, 95, 100, 101, 108, 97, 121>>)

HasMagicLine(code) == \E i \in 1..Len(SplitLines(code)) : MagicLine(SplitLines(code)[i])

\* the bytes of the given lines, each followed by CR-LF
RECURSIVE Transmission(_)
Transmission(lines) ==
  IF lines = <<>> THEN <<>>
  ELSE Encode(Head(lines)) \o <<13, 10>> \o Transmission(Tail(lines))

RECURSIVE NonEmptyLines(_)
NonEmptyLines(lines) ==
  IF lines = <<>> THEN <<>>
  ELSE (IF Head(lines) = <<>> THEN <<>> ELSE <<Head(lines)>>) \o NonEmptyLines(Tail(lines))

RECURSIVE PlainLines(_)
PlainLines(lines) ==
  IF lines = <<>> THEN <<>>
  ELSE (IF MagicLine(Head(lines)) THEN <<>> ELSE <<Head(lines)>>) \o PlainLines(Tail(lines))

RECURSIVE CountSoftresets(_)
CountSoftresets(lines) ==
  IF lines = <<>> THEN 0
  ELSE (IF StartsWith(Head(lines), <<37, 115, 111, 102, 116, 114, 101, 115, 101, 116>>) THEN 1 ELSE 0)
       + CountSoftresets(Tail(lines))

\* C2 as stated: for a cell without magic lines, the bytes written before
\* the trigger are exactly the non-empty lines, each followed by CR-LF.
C2_NonEmptyLinesOnly ==
  (Draining /\ ~HasMagicLine(req.code))
    => sent = Transmission(NonEmptyLines(SplitLines(req.code))) \o <<13, 4>>

\* C2 amended: for a cell without magic lines, the bytes written are at
\* every point of the line loop the lines handled so far, empty lines
\* included, each verbatim and followed by CR-LF, in the original order;
\* the trigger follows the last line.
C2_EveryLine ==
  ~HasMagicLine(req.code)
    => /\ pc = "lines" => sent = Transmission(Handled)
       /\ Draining => sent = Transmission(SplitLines(req.code)) \o <<13, 4>>

\* C2 witness: the trigger has been written for a cell with an empty line
\* between two lines that are not empty.
C2_Witness ==
  /\ Draining
  /\ ~HasMagicLine(req.code)
  /\ Len(SplitLines(req.code)) = 3
  /\ SplitLines(req.code)[2] = <<>>
  /\ SplitLines(req.code)[3] # <<>>

\* C3: a magic line is never written to the board: what has been written
\* is at every point the other lines handled so far, each followed by
\* CR-LF, and every %softreset line handled was applied as a soft reset.
C3_MagicNeverSent ==
  HasMagicLine(req.code)
    => /\ pc = "lines" => sent = Transmission(PlainLines(Handled))
       /\ Draining => sent = Transmission(PlainLines(SplitLines(req.code))) \o <<13, 4>>
       /\ pc = "lines" \/ Draining => resets = CountSoftresets(Handled)

\* C3 witness: the trigger has been written for a cell in which a line to
\* transmit precedes a magic line.
C3_Witness ==
  /\ Draining
  /\ Len(SplitLines(req.code)) >= 2
  /\ ~MagicLine(SplitLines(req.code)[1])
  /\ MagicLine(SplitLines(req.code)[2])


\* the stream messages of the given name
StreamsNamed(name) == {i \in 1..Len(streams) : streams[i].name = name}

C5_PacedByDelay ==
  [][(pc = "lines" /\ todo # <<>> /\ sent' # sent)
       => pauses' = Append(pauses, upload_delay)]_vars

C7_BlankIsNoOp ==
  [][(pc = "idle" /\ req'.op = "execute"
        /\ \A i \in 1..Len(req'.code) : req'.code[i] \in Whitespace)
       => /\ pc' = "idle"
          /\ ret'.kind = "return"
          /\ ret'.status = "ok"
          /\ streams' = <<>>
          /\ UNCHANGED <<connected, opens, upload_delay, sent, resets, pauses, wire>>]_vars

\* C7 witness: a cell of white space has been executed on a connected
\* session.
C7_Witness ==
  /\ pc = "idle"
  /\ req.op = "execute"
  /\ req.code = <<32, 10>>
  /\ ret.status = "ok"
  /\ connected
  /\ sent # <<>>

\* the running request reached run_code with no line to transmit
NothingToTransmit ==
  /\ req.op \in {"execute", "run_code"}
  /\ PlainLines(SplitLines(req.code)) = <<>>
  /\ req.op = "execute" => \E i \in 1..Len(req.code) : req.code[i] \notin Whitespace

C9_EvalDoesNotRaise ==
  (pc = "idle" /\ req.op = "complete" /\ raised.type = "BoardError")
    => /\ ret.kind = "return"
       /\ ret.matches = <<>>

\* the text before the cursor of the running complete request ends in this
DottedPrefix == MatchGroup(Take(req.text, req.cursor))

\* position of the last dot of s (s contains a dot)
LastDot(s) == CHOOSE i \in 1..Len(s) : s[i] = 46 /\ \A j \in (i + 1)..Len(s) : s[j] # 46

\* C10 as stated: for a prefix with one or more dots, complete evaluates
\* dir(<everything before the last dot>) on the device and, given the
\* list, returns the names that start with the trailing name and the span
\* (cursor_pos - len(trailing name), cursor_pos).
C10_DottedCompletion ==
  (pc = "idle" /\ req.op = "complete" /\ Contains(DottedPrefix, 46)
     /\ raised.type = "none")
    => LET obj == Take(DottedPrefix, LastDot(DottedPrefix) - 1)
           name == Drop(DottedPrefix, LastDot(DottedPrefix))
       IN  /\ sent = Encode(WRAP_OPEN \o DIR_OPEN \o obj \o CLOSE_PAREN \o CLOSE_PAREN)
                     \o <<13, 10, 13, 4>>
           /\ reply.out = DirListing
                => /\ ret.kind = "return"
                   /\ ret.matches = FilterNames(LiteralEval(Decode(DirListing)).names, name)
                   /\ ret.cursor_start = req.cursor - Len(name)
                   /\ ret.cursor_end = req.cursor


\* C11 as stated: shutdown does not raise in any session state, and after
\* it the session is disconnected.
C11_ShutdownNeverRaises ==
  pc = "shutdown" => ret.kind = "return" /\ ~connected

\* C12 as stated: an execute with silent = true emits no stream message,
\* on normal completion, on a connection failure and on a keyboard interrupt.
C12_SilentEmitsNothing ==
  (req.op = "execute" /\ req.silent) => streams = <<>>

RECURSIVE FromFirstTransmitted(_)
FromFirstTransmitted(lines) ==
  IF lines = <<>> \/ ~IsMagic(Head(lines)) THEN lines
  ELSE FromFirstTransmitted(Tail(lines))

\* the pauses the loop of run_code makes for the given lines when it
\* starts with the pacing delay d: a magic line is not transmitted and sets
\* the delay of the lines after it
RECURSIVE PausesOf(_, _)
PausesOf(lines, d) ==
  IF lines = <<>> THEN <<>>
  ELSE IF StartsWith(Head(lines), SOFTRESET) THEN PausesOf(Tail(lines), d)
  ELSE IF StartsWith(Head(lines), UPLOAD_DELAY)
         THEN PausesOf(Tail(lines), MagicDelay(Head(lines), d))
  ELSE <<d>> \o PausesOf(Tail(lines), d)

\* run_code is past connect() and before its return
Transmitting == pc \in {"lines", "ack", "poll", "rest"}

\* C14 as stated: the pauses of a block all have the same value.
C14_UniformWithinBlock ==
  Transmitting => \A i, j \in 1..Len(pauses) : pauses[i] = pauses[j]

\* C14 amended: the pause after a transmitted line is the pause of the
\* block's first transmitted line, changed by every valid %upload_delay
\* line that lies between the two; without such a line the pauses are equal.
C14_PausesFollowMagic ==
  (Transmitting /\ pauses # <<>>) =>
     pauses = Take(PausesOf(FromFirstTransmitted(SplitLines(req.code)), pauses[1]),
                   Len(pauses))

\* C14 witness: a block with an %upload_delay line between two transmitted
\* lines has been transmitted
C14_Witness ==
  /\ pc = "ack"
  /\ req.code = JoinLines(<<LineX, LineDelayHalf, LineX>>)
  /\ pauses = <<Finite(6), Finite(50)>>

\* C15: what a direct run_code writes, reads and returns is a function of
\* the code, the device's response and its chunking alone, the same for
\* silent = true and silent = false: the bytes written are the block's
\* lines and the trigger, the call returns exactly when the last chunk read
\* splits at a 0x04, the pair returned is the one the device sent, and the
\* silent flag decides only whether the stream messages of a non-empty
\* response exist.
C15_SilentIndependent ==
  (pc = "idle" /\ req.op = "run_code" /\ EndsWith(sent, TRIGGER))
    => /\ sent = Transmission(PlainLines(SplitLines(req.code))) \o TRIGGER
       /\ ret.kind = "return" <=> Len(SplitFirst(result, EOT)) = 2
       /\ ret.kind = "return"
            => /\ ret.out = Decode(reply.out)
               /\ ret.err = Decode(reply.err)
               /\ wire = <<>>
               /\ ~req.silent
                    => (streams = <<>> <=> (reply.out = <<>> /\ reply.err = <<>>))
       /\ ret.kind # "return" => ret = Raised("ValueError")
       /\ req.silent => streams = <<>>

\* C15 witness: a silent run_code has returned a pair with output, read
\* in more than one chunk, and has streamed nothing
C15_Witness ==
  /\ pc = "idle"
  /\ req.op = "run_code"
  /\ req.silent
  /\ ret.kind = "return"
  /\ ret.out # <<>>
  /\ ret.err # <<>>
  /\ result # retval
  /\ streams = <<>>

\* the bytes of all transmitted lines of the running request
AllLinesSent == Transmission(PlainLines(SplitLines(req.code)))

C17_ReturnsAfterTerminator ==
  [][(pc \in {"poll", "rest"} /\ pc' = "idle" /\ ret'.kind = "return")
     => LET read == Take(wire, Len(wire) - Len(wire'))
            chunk == (IF pc = "rest" THEN result ELSE <<>>) \o read
        IN  /\ EndsWith(chunk, <<4, 62>>)
            /\ Contains(Take(chunk, Len(chunk) - 2), 4)
            /\ result' = Take(chunk, Len(chunk) - 2)]_vars

\* C17 as stated, second half: once the trigger is written and the device
\* has delivered its complete response, run_code eventually returns
\* normally, however the response is chunked.
C17_EventuallyReturns ==
  (pc = "ack") ~> (pc = "idle" /\ ret.kind = "return")

\* C18 as stated: whatever came before, calls aborted by an interrupt or a
\* connection failure included, the pair a run_code returns is made of the
\* bytes the device produced for that call's own trigger.
C18_OwnResponse ==
  (pc = "idle" /\ req.op = "run_code" /\ ret.kind = "return" /\ faults > 0)
    => /\ ret.out = Decode(reply.out)
       /\ ret.err = Decode(reply.err)

\* the texts of the stream messages of the given name, concatenated in
\* emission order
RECURSIVE StreamText(_, _)
StreamText(msgs, name) ==
  IF msgs = <<>> THEN <<>>
  ELSE (IF Head(msgs).name = name THEN Head(msgs).text ELSE <<>>)
       \o StreamText(Tail(msgs), name)

\* C19 as stated: when a run_code that is not silent returns (out, err),
\* the stdout messages it emitted concatenate to out, the stderr text is
\* err, and no stdout message follows a stderr message, for every chunking.
C19_StreamsMatchReturn ==
  (pc = "idle" /\ req.op = "run_code" /\ ~req.silent /\ ret.kind = "return")
    => /\ StreamText(streams, "stdout") = ret.out
       /\ StreamText(streams, "stderr") = ret.err
       /\ \A i, j \in 1..Len(streams) :
            (i < j /\ streams[i].name = "stderr") => streams[j].name # "stdout"

\* C20 as stated: whatever %upload_delay lines the cells executed so far
\* contained, the pacing delay is a finite number that is not negative,
\* and an execute that has ended has returned status 'ok' without raising.
C20_DelayStaysValid ==
  /\ upload_delay.kind = "finite"
  /\ upload_delay.centi >= 0
  /\ (pc = "idle" /\ req.op = "execute") => ret = ExecuteReply

=============================================================================
